---- MODULE Spec2Model ----
(***************************************************************************)
(* Model of src/main.py: the loader WasserstoffProjekt._parse_projekt_-    *)
(* struktur (one ConfigParser object reused for every *.ini file) and the  *)
(* analysis WasserstoffProjekt.starte_monatliche_analyse.                  *)
(*                                                                         *)
(* Numbers.  The program computes in floating point; the model computes    *)
(* the same expressions exactly, in fixed point:                           *)
(*   - energies are held in units of 1/ProfilSkala kWh (ProfilSkala =      *)
(*     1200), so that Prozent/100, 1/12 and strombedarf/12 are integers;   *)
(*   - yearly costs are held in units of 1/KostenSkala EUR (1000), so that *)
(*     the rates 0.015, 0.02 and 0.5*0.07 are integers; the lifetimes of   *)
(*     the input files divide investitionskosten * KostenSkala;            *)
(*   - quotients (operating hours, hydrogen, cost per kg) are held as      *)
(*     [art, z, n]: the fraction z/n, or numpy's inf / nan.                *)
(* Input values are non-negative.  A key that a file does not set reads as *)
(* None, a value that is no number ("abc") as Ungueltig.                   *)
(***************************************************************************)
EXTENDS Integers, Sequences, FiniteSets, TLC

\* Number of *.ini files the directory walk visits.
MaxDateien == 3

\* configparser returns None for an option that is not set (no fallback given).
None == -1
\* An option whose text is no number: getint/getfloat raise ValueError on it.
Ungueltig == -2

Monate == 12
ProfilSkala == 1200
KostenSkala == 1000

Keys ==
    { <<"Allgemein", "lebensdauer_jahre">>,
      <<"Allgemein", "spezifische_investitionskosten_eur_pro_kw">>,
      <<"Allgemein", "spezifische_investitionskosten_eur_pro_kwp">>,
      <<"Verbrauch", "nennleistung_kw">>,
      <<"Verbrauch", "strombedarf_kwh_pa">>,
      <<"Produktion", "h2_produktionsrate_kg_h">>,
      <<"Produktion", "profil_id">>,
      <<"Produktion", "nennleistung_kw">>,
      <<"Produktion", "vollaststunden_pa">>,
      <<"Produktion", "nennleistung_kwp">>,
      <<"Produktion", "sonneneinstrahlung_kwh_kwp">> }

------------------------------------------------------------------------------
(* The input files.                                                         *)

\* An *.ini file: the sections it has and the options it sets.
Ini(f) ==
    [ sections |-> { k[1] : k \in DOMAIN f },
      werte    |-> [ k \in Keys |-> IF k \in DOMAIN f THEN f[k] ELSE None ] ]

\* The file without option k (its section stays).
Ohne(d, k) == [ d EXCEPT !.werte[k] = None ]

\* The file without section s and its options.
OhneSektion(d, s) ==
    [ sections |-> d.sections \ {s},
      werte    |-> [ k \in Keys |-> IF k[1] = s THEN None ELSE d.werte[k] ] ]

\* The file with option k set to v.
Mit(d, k, v) == [ d EXCEPT !.werte[k] = v ]

ElektrolyseurBasis ==
    Ini( <<"Allgemein", "lebensdauer_jahre">> :> 10
      @@ <<"Allgemein", "spezifische_investitionskosten_eur_pro_kw">> :> 2
      @@ <<"Verbrauch", "nennleistung_kw">> :> 1
      @@ <<"Verbrauch", "strombedarf_kwh_pa">> :> 24
      @@ <<"Produktion", "h2_produktionsrate_kg_h">> :> 1 )

WindBasis ==
    Ini( <<"Allgemein", "lebensdauer_jahre">> :> 20
      @@ <<"Allgemein", "spezifische_investitionskosten_eur_pro_kw">> :> 1
      @@ <<"Produktion", "profil_id">> :> 1
      @@ <<"Produktion", "nennleistung_kw">> :> 5
      @@ <<"Produktion", "vollaststunden_pa">> :> 5 )

PVBasis ==
    Ini( <<"Allgemein", "lebensdauer_jahre">> :> 20
      @@ <<"Allgemein", "spezifische_investitionskosten_eur_pro_kwp">> :> 1
      @@ <<"Produktion", "profil_id">> :> 2
      @@ <<"Produktion", "nennleistung_kwp">> :> 1
      @@ <<"Produktion", "sonneneinstrahlung_kwh_kwp">> :> 12 )

\* The files of each type folder: a complete file and the files that differ
\* from it in one option or one section.
DateienIn(typ) ==
    CASE typ = "elektrolyseure" ->
           { ElektrolyseurBasis,
             Ohne(ElektrolyseurBasis, <<"Allgemein", "lebensdauer_jahre">>),
             Ohne(ElektrolyseurBasis, <<"Verbrauch", "nennleistung_kw">>),
             Ohne(ElektrolyseurBasis, <<"Verbrauch", "strombedarf_kwh_pa">>),
             Ohne(ElektrolyseurBasis, <<"Produktion", "h2_produktionsrate_kg_h">>),
             OhneSektion(ElektrolyseurBasis, "Verbrauch"),
             Mit(ElektrolyseurBasis, <<"Allgemein", "lebensdauer_jahre">>, 0),
             Mit(ElektrolyseurBasis, <<"Verbrauch", "nennleistung_kw">>, 0),
             Mit(ElektrolyseurBasis, <<"Verbrauch", "strombedarf_kwh_pa">>, 36),
             Mit(ElektrolyseurBasis, <<"Produktion", "h2_produktionsrate_kg_h">>, 0) }
      [] typ = "windkraft" ->
           { WindBasis,
             Ohne(WindBasis, <<"Produktion", "vollaststunden_pa">>),
             Ohne(WindBasis, <<"Produktion", "profil_id">>),
             OhneSektion(WindBasis, "Produktion"),
             Mit(WindBasis, <<"Produktion", "profil_id">>, 3),
             Mit(WindBasis, <<"Produktion", "profil_id">>, 4),
             Mit(WindBasis, <<"Allgemein", "spezifische_investitionskosten_eur_pro_kw">>,
                 Ungueltig),
             Mit(WindBasis, <<"Produktion", "nennleistung_kw">>, 0) }
      [] typ = "pv" ->
           { PVBasis,
             Ohne(PVBasis, <<"Produktion", "nennleistung_kwp">>),
             OhneSektion(PVBasis, "Allgemein"),
             Mit(PVBasis, <<"Produktion", "sonneneinstrahlung_kwh_kwp">>, 36) }
      [] OTHER ->
           { WindBasis, OhneSektion(WindBasis, "Produktion") }

\* ini_file before the first iteration.
KeineDatei == [ sections |-> {}, werte |-> [ k \in Keys |-> None ] ]

\* The folders under anlagen_pfad; "sonstiges" is a folder of no known type.
Ordner == {"elektrolyseure", "windkraft", "pv", "sonstiges"}

\* lastprofile_pfad: the profile files by profil_id, each the 'Prozent' column
\* of twelve rows.  Files 1 and 2 sum to 100, file 3 to 96; file 4 has no
\* column 'Prozent'; any other id names no file.
ProfilDateien ==
    ( 1 :> <<12, 11, 10, 8, 6, 5, 5, 6, 7, 9, 10, 11>>
   @@ 2 :> <<2, 4, 8, 11, 13, 14, 14, 12, 9, 7, 4, 2>>
   @@ 3 :> <<8, 8, 8, 8, 8, 8, 8, 8, 8, 8, 8, 8>>
   @@ 4 :> << >> )

------------------------------------------------------------------------------
(* configparser.ConfigParser, as far as the loader uses it.                 *)

\* ConfigParser(): no section, no option.
ConfigParser ==
    [ sections |-> {}, werte |-> [ k \in Keys |-> None ] ]

\* config.read(ini_file): the file's sections and options are added to what
\* the parser already holds; an option the file sets replaces the old value.
ConfigRead(config, datei) ==
    [ sections |-> config.sections \cup datei.sections,
      werte    |-> [ k \in Keys |-> IF datei.werte[k] # None
                                      THEN datei.werte[k]
                                      ELSE config.werte[k] ] ]

\* section.getfloat(option, fallback=0): 0 for an option that is not set.
GetFallback0(config, k) ==
    IF config.werte[k] = None THEN 0 ELSE config.werte[k]

------------------------------------------------------------------------------
(* The component classes.  A constructor yields [fehler |-> "", komponente  *)
(* |-> the object] or [fehler |-> the exception raised].                    *)

Fehler(e) == [ fehler |-> e ]
Gebaut(k) == [ fehler |-> "", komponente |-> k ]

\* getfloat(..._pro_kw, fallback=0) or getfloat(..._pro_kwp, fallback=0):
\* the second option is read only when the first is 0 (or not set).
SpezInvest(config) ==
    LET kw  == GetFallback0(config, <<"Allgemein", "spezifische_investitionskosten_eur_pro_kw">>)
        kwp == GetFallback0(config, <<"Allgemein", "spezifische_investitionskosten_eur_pro_kwp">>)
    IN  IF kw # 0 THEN kw ELSE kwp

\* AnlagenKomponente.__init__: the values it reads, Ungueltig standing for a
\* ValueError raised by getint/getfloat.
AnlagenKomponente(config) ==
    [ lebensdauer        |-> config.werte[<<"Allgemein", "lebensdauer_jahre">>],
      spez_invest_eur_kw |-> SpezInvest(config) ]

\* x * y in Python for a float x and y read from the file: TypeError if y is None.
MalFehlt(y) == y = None

Elektrolyseur(config) ==
    LET basis == AnlagenKomponente(config)
        nenn  == config.werte[<<"Verbrauch", "nennleistung_kw">>]
        bed   == config.werte[<<"Verbrauch", "strombedarf_kwh_pa">>]
        rate  == config.werte[<<"Produktion", "h2_produktionsrate_kg_h">>]
    IN  IF Ungueltig \in {basis.lebensdauer, basis.spez_invest_eur_kw, nenn, bed, rate}
        THEN Fehler("ValueError")
        ELSE IF MalFehlt(nenn)
        THEN Fehler("TypeError")
        ELSE Gebaut([ klasse                  |-> "Elektrolyseur",
                      lebensdauer             |-> basis.lebensdauer,
                      spez_invest_eur_kw      |-> basis.spez_invest_eur_kw,
                      nennleistung_kw         |-> nenn,
                      strombedarf_kwh_pa      |-> bed,
                      h2_produktionsrate_kg_h |-> rate,
                      investitionskosten      |-> basis.spez_invest_eur_kw * nenn ])

\* pd.Series([1/12] * 12), in units of 1/ProfilSkala.
Gleichverteilung == [ m \in 1..Monate |-> ProfilSkala \div 12 ]

\* pd.read_csv(profil_datei)['Prozent'] / 100, in units of 1/ProfilSkala.
ProzentDurch100(prozent) ==
    [ m \in 1..Len(prozent) |-> prozent[m] * (ProfilSkala \div 100) ]

\* EnergieErzeuger.__init__: the profile of the generator; a file that is not
\* there gives the uniform profile, a file without the column a KeyError.
Monatsprofil(profil_id) ==
    IF profil_id \notin DOMAIN ProfilDateien
    THEN [ fehler |-> "", profil |-> Gleichverteilung ]
    ELSE IF ProfilDateien[profil_id] = << >>
    THEN [ fehler |-> "KeyError" ]
    ELSE [ fehler |-> "", profil |-> ProzentDurch100(ProfilDateien[profil_id]) ]

Windkraftanlage(config) ==
    LET basis == AnlagenKomponente(config)
        prof  == Monatsprofil(config.werte[<<"Produktion", "profil_id">>])
        nenn  == config.werte[<<"Produktion", "nennleistung_kw">>]
        voll  == config.werte[<<"Produktion", "vollaststunden_pa">>]
    IN  IF Ungueltig \in {basis.lebensdauer, basis.spez_invest_eur_kw}
        THEN Fehler("ValueError")
        ELSE IF prof.fehler # ""
        THEN Fehler(prof.fehler)
        ELSE IF Ungueltig \in {nenn, voll}
        THEN Fehler("ValueError")
        ELSE IF MalFehlt(nenn)
        THEN Fehler("TypeError")
        ELSE Gebaut([ klasse             |-> "Windkraftanlage",
                      lebensdauer        |-> basis.lebensdauer,
                      spez_invest_eur_kw |-> basis.spez_invest_eur_kw,
                      monatsprofil       |-> prof.profil,
                      nennleistung_kw    |-> nenn,
                      vollaststunden_pa  |-> voll,
                      investitionskosten |-> basis.spez_invest_eur_kw * nenn ])

PVAnlage(config) ==
    LET basis == AnlagenKomponente(config)
        prof  == Monatsprofil(config.werte[<<"Produktion", "profil_id">>])
        nenn  == config.werte[<<"Produktion", "nennleistung_kwp">>]
        sonne == config.werte[<<"Produktion", "sonneneinstrahlung_kwh_kwp">>]
    IN  IF Ungueltig \in {basis.lebensdauer, basis.spez_invest_eur_kw}
        THEN Fehler("ValueError")
        ELSE IF prof.fehler # ""
        THEN Fehler(prof.fehler)
        ELSE IF Ungueltig \in {nenn, sonne}
        THEN Fehler("ValueError")
        ELSE IF MalFehlt(nenn)
        THEN Fehler("TypeError")
        ELSE Gebaut([ klasse                     |-> "PVAnlage",
                      lebensdauer                |-> basis.lebensdauer,
                      spez_invest_eur_kw         |-> basis.spez_invest_eur_kw,
                      monatsprofil               |-> prof.profil,
                      nennleistung_kwp           |-> nenn,
                      sonneneinstrahlung_kwh_kwp |-> sonne,
                      investitionskosten         |-> basis.spez_invest_eur_kw * nenn ])

\* The body of the try block for one file, after config.read: the two
\* sections every type needs, then the constructor of the folder's type.
\* [fehler |-> "continue"] is the else branch of an unknown type.
Konstruiere(config, typ) ==
    IF "Allgemein" \notin config.sections \/ "Produktion" \notin config.sections
    THEN Fehler("KeyError")
    ELSE CASE typ = "elektrolyseure" ->
                IF "Verbrauch" \notin config.sections
                THEN Fehler("KeyError")
                ELSE Elektrolyseur(config)
           [] typ = "windkraft" -> Windkraftanlage(config)
           [] typ = "pv"        -> PVAnlage(config)
           [] OTHER             -> Fehler("continue")

------------------------------------------------------------------------------
(* Arithmetic of the analysis.                                              *)

RECURSIVE SummeSeq(_)
SummeSeq(s) == IF s = << >> THEN 0 ELSE Head(s) + SummeSeq(Tail(s))

RECURSIVE SummeWerte(_)
\* sum(f.values()) for a dict f.
SummeWerte(f) ==
    IF DOMAIN f = {} THEN 0
    ELSE LET k == CHOOSE x \in DOMAIN f : TRUE
         IN  f[k] + SummeWerte([ x \in DOMAIN f \ {k} |-> f[x] ])

\* A quotient the analysis computes is the fraction z/n (n > 0), numpy's inf
\* or nan, or "none" while it has not been computed.
RECURSIVE GGT(_, _)
GGT(a, b) == IF b = 0 THEN a ELSE GGT(b, a % b)

\* The fraction z/n in lowest terms: equal values have equal representations.
Bruch(z, n) ==
    LET g == GGT(z, n)
    IN  IF g = 0 THEN [ art |-> "fin", z |-> z, n |-> n ]
        ELSE [ art |-> "fin", z |-> z \div g, n |-> n \div g ]
Inf         == [ art |-> "inf", z |-> 0, n |-> 1 ]
NaN         == [ art |-> "nan", z |-> 0, n |-> 1 ]
KeinWert    == [ art |-> "none", z |-> 0, n |-> 1 ]

\* numpy.float64 x / float y for x >= 0, y >= 0: a zero divisor gives inf
\* (nan for 0/0) and a warning, no exception.  x is in units of 1/skala.
Durch(x, y, skala) ==
    IF y = 0 THEN (IF x > 0 THEN Inf ELSE NaN) ELSE Bruch(x, y * skala)

\* b * y for a quotient b and a float y >= 0.
Mal(b, y) ==
    CASE b.art = "fin" -> Bruch(b.z * y, b.n)
      [] b.art = "inf" -> IF y > 0 THEN Inf ELSE NaN
      [] OTHER         -> NaN

\* Mutant of Positiv: "h2_produktion_kg_pa >= 0" in place of "> 0".
PositivOderNull(b) == b.art = "inf" \/ (b.art = "fin" /\ b.z >= 0)

\* b > 0 (False for nan).
Positiv(b) == b.art = "inf" \/ (b.art = "fin" /\ b.z > 0)

\* float x / b for a quotient b > 0; x is in units of 1/skala.
DurchBruch(x, b, skala) ==
    IF b.art = "inf" THEN Bruch(0, 1) ELSE Bruch(x * b.n, b.z * skala)

Min2(a, b) == IF a <= b THEN a ELSE b

\* Mutant of Clip0: the clip is left out.
OhneClip(x) == x

\* Series.clip(lower=0).
Clip0(x) == IF x < 0 THEN 0 ELSE x

------------------------------------------------------------------------------
(* Methods of the components.                                               *)

IstElektrolyseur(k) == k.klasse = "Elektrolyseur"
IstEnergieErzeuger(k) == k.klasse \in {"Windkraftanlage", "PVAnlage"}

\* The second factor of jahresproduktion (the first is not None in an object
\* that was constructed).
Ertragsfaktor(k) ==
    IF k.klasse = "Windkraftanlage" THEN k.vollaststunden_pa
    ELSE k.sonneneinstrahlung_kwh_kwp

Jahresproduktion(k) ==
    IF k.klasse = "Windkraftanlage"
    THEN k.nennleistung_kw * k.vollaststunden_pa
    ELSE k.nennleistung_kwp * k.sonneneinstrahlung_kwh_kwp

\* get_monatliche_produktion_kwh: jahresproduktion * monatsprofil, in units
\* of 1/ProfilSkala kWh.
MonatlicheProduktion(k) ==
    [ m \in 1..Len(k.monatsprofil) |-> Jahresproduktion(k) * k.monatsprofil[m] ]

\* get_abschreibung_pa, in units of 1/KostenSkala EUR.
Abschreibung(k) ==
    IF k.lebensdauer > 0
    THEN (k.investitionskosten * KostenSkala) \div k.lebensdauer
    ELSE 0

\* The maintenance rate of each class, in 1/KostenSkala.
WartungsSatz(k) ==
    CASE k.klasse = "Elektrolyseur"   -> 15
      [] k.klasse = "Windkraftanlage" -> 20
      [] OTHER                        -> 15

\* get_wartung_pa, in units of 1/KostenSkala EUR.
Wartung(k) == k.investitionskosten * WartungsSatz(k)

\* gesamte_investition * 0.5 * 0.07, in units of 1/KostenSkala EUR.
Zinsen(gesamte_investition) == gesamte_investition * 35

------------------------------------------------------------------------------
(* starte_monatliche_analyse.                                               *)

Elektrolyseure(komps) == SelectSeq(komps, IstElektrolyseur)
Erzeuger(komps) == SelectSeq(komps, IstEnergieErzeuger)

\* Mutant of KeinElektrolyseur: the check for an empty list is left out.
OhnePruefung(elektrolyseure) == FALSE

\* "if not elektrolyseure".
KeinElektrolyseur(elektrolyseure) == elektrolyseure = << >>

\* sum(k.get_monatliche_produktion_kwh() for k in erzeuger), month by month.
MonatlicheErzeugung(erzeuger) ==
    [ m \in 1..Monate |->
        SummeSeq([ i \in 1..Len(erzeuger) |-> MonatlicheProduktion(erzeuger[i])[m] ]) ]

\* elektrolyseure[0].strombedarf_kwh_pa / 12, in units of 1/ProfilSkala kWh.
MonatlicherBedarf(elektrolyseur) ==
    elektrolyseur.strombedarf_kwh_pa * (ProfilSkala \div 12)

\* Mutant of Selbstversorgung: the row maximum in place of the minimum.
SelbstversorgungMax(erzeugung, bedarf) ==
    IF erzeugung >= bedarf THEN erzeugung ELSE bedarf

\* df['Selbstversorgung']: the row minimum of generation and demand.
Selbstversorgung(erzeugung, bedarf) == Min2(erzeugung, bedarf)

\* One row of df.
Zeile(erzeugung, bedarf) ==
    [ Erzeugung                   |-> erzeugung,
      Bedarf_Elektrolyseur        |-> bedarf,
      Selbstversorgung            |-> Selbstversorgung(erzeugung, bedarf),
      Netzeinspeisung_Ueberschuss |-> Clip0(erzeugung - bedarf),
      Netzbezug_Defizit           |-> Clip0(bedarf - erzeugung) ]

DataFrame(monatliche_erzeugung, monatlicher_bedarf) ==
    [ m \in 1..Monate |-> Zeile(monatliche_erzeugung[m], monatlicher_bedarf) ]

Spalte(df, name) == [ m \in 1..Len(df) |-> df[m][name] ]

\* h2_produktionsstunden.
Produktionsstunden(jahres_selbstversorgung, elektrolyseur) ==
    Durch(jahres_selbstversorgung, elektrolyseur.nennleistung_kw, ProfilSkala)

\* Mutant of Kosten: maintenance is summed over the generators only.
KostenWartungNurErzeuger(komps, gesamte_investition) ==
    ( "Abschreibung" :> SummeSeq([ i \in 1..Len(komps) |-> Abschreibung(komps[i]) ])
   @@ "Wartung" :> SummeSeq([ i \in 1..Len(Erzeuger(komps)) |-> Wartung(Erzeuger(komps)[i]) ])
   @@ "Zinsen (Annahme)" :> Zinsen(gesamte_investition) )

\* The dict kosten.
Kosten(komps, gesamte_investition) ==
    ( "Abschreibung" :> SummeSeq([ i \in 1..Len(komps) |-> Abschreibung(komps[i]) ])
   @@ "Wartung" :> SummeSeq([ i \in 1..Len(komps) |-> Wartung(komps[i]) ])
   @@ "Zinsen (Annahme)" :> Zinsen(gesamte_investition) )

\* selbstkosten_total_pa.
SelbstkostenTotal(kosten) == SummeWerte(kosten)

\* gestehungskosten_pro_kg_h2.
Gestehungskosten(selbstkosten_total_pa, h2_produktion_kg_pa) ==
    IF Positiv(h2_produktion_kg_pa)
    THEN DurchBruch(selbstkosten_total_pa, h2_produktion_kg_pa, KostenSkala)
    ELSE Inf

KeineKosten == [ x \in {} |-> 0 ]

\* What a run of the analysis has computed; status is "Bericht" when it ran
\* to its end, "KeinElektrolyseur" when it returned at line 125, otherwise the
\* exception it raised; zeile is the source line where it stopped.
Unberechnet ==
    [ status                     |-> "offen",
      zeile                      |-> 0,
      df                         |-> << >>,
      jahres_erzeugung           |-> None,
      jahres_selbstversorgung    |-> None,
      h2_produktionsstunden      |-> KeinWert,
      h2_produktion_kg_pa        |-> KeinWert,
      gesamte_investition        |-> None,
      kosten                     |-> KeineKosten,
      selbstkosten_total_pa      |-> None,
      gestehungskosten_pro_kg_h2 |-> KeinWert ]

Abbruch(e, status, zeile) == [ e EXCEPT !.status = status, !.zeile = zeile ]

\* Lines 142-170, given the balance df.
Jahresergebnis(komps, elektrolyseur, df) ==
    LET jahres_erzeugung        == SummeSeq(Spalte(df, "Erzeugung"))
        jahres_selbstversorgung == SummeSeq(Spalte(df, "Selbstversorgung"))
        stunden == Produktionsstunden(jahres_selbstversorgung, elektrolyseur)
        e1 == [ Unberechnet EXCEPT !.df = df,
                                   !.jahres_erzeugung = jahres_erzeugung,
                                   !.jahres_selbstversorgung = jahres_selbstversorgung,
                                   !.h2_produktionsstunden = stunden ]
    IN  IF elektrolyseur.h2_produktionsrate_kg_h = None
        THEN Abbruch(e1, "TypeError", 147)
        ELSE
        LET h2 == Mal(stunden, elektrolyseur.h2_produktionsrate_kg_h)
            gesamte_investition ==
                SummeSeq([ i \in 1..Len(komps) |-> komps[i].investitionskosten ])
            e2 == [ e1 EXCEPT !.h2_produktion_kg_pa = h2,
                              !.gesamte_investition = gesamte_investition ]
        IN  IF \E i \in 1..Len(komps) : komps[i].lebensdauer = None
            THEN Abbruch(e2, "TypeError", 151)
            ELSE
            LET kosten == Kosten(komps, gesamte_investition)
                total  == SelbstkostenTotal(kosten)
            IN  [ e2 EXCEPT !.status = "Bericht",
                            !.zeile = 170,
                            !.kosten = kosten,
                            !.selbstkosten_total_pa = total,
                            !.gestehungskosten_pro_kg_h2 = Gestehungskosten(total, h2) ]

StarteMonatlicheAnalyse(komps) ==
    LET elektrolyseure == Elektrolyseure(komps)
        erzeuger       == Erzeuger(komps)
    IN  IF KeinElektrolyseur(elektrolyseure)
        THEN Abbruch(Unberechnet, "KeinElektrolyseur", 125)
        ELSE IF \E i \in 1..Len(erzeuger) : Ertragsfaktor(erzeuger[i]) = None
        THEN Abbruch(Unberechnet, "TypeError", 128)
        ELSE IF elektrolyseure = << >>
        THEN Abbruch(Unberechnet, "IndexError", 129)
        ELSE IF elektrolyseure[1].strombedarf_kwh_pa = None
        THEN Abbruch(Unberechnet, "TypeError", 129)
        ELSE IF erzeuger = << >>
        THEN Abbruch(Unberechnet, "ValueError", 132)
        ELSE Jahresergebnis(komps, elektrolyseure[1],
                            DataFrame(MonatlicheErzeugung(erzeuger),
                                      MonatlicherBedarf(elektrolyseure[1])))

------------------------------------------------------------------------------
(* The program.                                                             *)

VARIABLES
    pc,                \* "parse": in _parse_projekt_struktur; "bereit": the
                       \* project is constructed; "fertig": the analysis ran
    config,            \* the ConfigParser of _parse_projekt_struktur
    alle_komponenten,  \* self.alle_komponenten
    typ,               \* the folder the walk is in ("" before the first)
    besucht,           \* the folders the walk has entered
    ini_file,          \* the file of the last iteration
    fehler,            \* what the last iteration ended with: "" (appended),
                       \* "continue", or the exception caught at line 116
    anzahl,            \* the number of files read
    ergebnis           \* what starte_monatliche_analyse computed

vars == <<pc, config, alle_komponenten, typ, besucht, ini_file, fehler, anzahl, ergebnis>>

Init ==
    /\ pc = "parse"
    /\ config = ConfigParser
    /\ alle_komponenten = << >>
    /\ typ = ""
    /\ besucht = {}
    /\ ini_file = KeineDatei
    /\ fehler = ""
    /\ anzahl = 0
    /\ ergebnis = Unberechnet

\* self.alle_komponenten after the try block that ended with r.
Angehaengt(komps, r) ==
    IF r.fehler = "" THEN Append(komps, r.komponente) ELSE komps

\* One iteration of the inner loop: file datei of folder ordner.  The files
\* of one folder are read one after the other; a folder is entered once.
LiesIni(ordner, datei) ==
    /\ pc = "parse"
    /\ anzahl < MaxDateien
    /\ ordner = typ \/ ordner \notin besucht
    /\ LET gelesen == ConfigRead(config, datei)
           r       == Konstruiere(gelesen, ordner)
       IN  /\ config' = gelesen
           /\ alle_komponenten' = Angehaengt(alle_komponenten, r)
           /\ fehler' = r.fehler
    /\ typ' = ordner
    /\ besucht' = besucht \cup {ordner}
    /\ ini_file' = datei
    /\ anzahl' = anzahl + 1
    /\ UNCHANGED <<pc, ergebnis>>

\* The walk is over: __init__ returns.
ParseEnde ==
    /\ pc = "parse"
    /\ pc' = "bereit"
    /\ UNCHANGED <<config, alle_komponenten, typ, besucht, ini_file, fehler, anzahl, ergebnis>>

Analyse ==
    /\ pc = "bereit"
    /\ pc' = "fertig"
    /\ ergebnis' = StarteMonatlicheAnalyse(alle_komponenten)
    /\ UNCHANGED <<config, alle_komponenten, typ, besucht, ini_file, fehler, anzahl>>

Next ==
    \/ \E ordner \in Ordner : \E datei \in DateienIn(ordner) : LiesIni(ordner, datei)
    \/ ParseEnde
    \/ Analyse

Spec == Init /\ [][Next]_vars

------------------------------------------------------------------------------
(* Properties.                                                              *)

Fertig == pc = "fertig"
ErsterElektrolyseur == Elektrolyseure(alle_komponenten)[1]
HatElektrolyseur ==
    \E i \in 1..Len(alle_komponenten) : alle_komponenten[i].klasse = "Elektrolyseur"
HatErzeuger ==
    \E i \in 1..Len(alle_komponenten) :
        alle_komponenten[i].klasse \in {"Windkraftanlage", "PVAnlage"}
IstNull(b) == b.art = "fin" /\ b.z = 0

\* C1: when the component list holds no electrolyzer, whatever generators it
\* holds, the analysis returns at line 125 with the no-electrolyzer message
\* and has computed nothing: no balance rows, no yearly sums, no hydrogen
\* quantity, no cost breakdown, no total, no cost per kg, no report.
C1_OhneElektrolyseurKeineBerechnung ==
    (Fertig /\ ~HatElektrolyseur) =>
        /\ ergebnis.status = "KeinElektrolyseur"
        /\ ergebnis.zeile = 125
        /\ ergebnis.df = << >>
        /\ ergebnis.jahres_erzeugung = None
        /\ ergebnis.jahres_selbstversorgung = None
        /\ ergebnis.h2_produktionsstunden.art = "none"
        /\ ergebnis.h2_produktion_kg_pa.art = "none"
        /\ DOMAIN ergebnis.kosten = {}
        /\ ergebnis.selbstkosten_total_pa = None
        /\ ergebnis.gestehungskosten_pro_kg_h2.art = "none"

\* The analysis ran on a wind generator and a PV generator without any
\* electrolyzer and stopped with the no-electrolyzer message.
C1_Witness ==
    /\ Fertig
    /\ ~HatElektrolyseur
    /\ \E i, j \in 1..Len(alle_komponenten) :
          /\ alle_komponenten[i].klasse = "Windkraftanlage"
          /\ alle_komponenten[j].klasse = "PVAnlage"
    /\ ergebnis.status = "KeinElektrolyseur"

\* C2: every row of the balance has non-negative generation and demand,
\* self-consumption equal to the smaller of the two, surplus equal to
\* generation minus demand where that is positive and 0 otherwise, deficit
\* equal to demand minus generation where that is positive and 0 otherwise;
\* surplus and deficit are never both positive, and both are 0 exactly when
\* generation equals demand.  The balance has twelve rows.
C2_Monatsbilanz ==
    (Fertig /\ ergebnis.df # << >>) =>
        /\ Len(ergebnis.df) = 12
        /\ \A m \in 1..Len(ergebnis.df) :
              LET z == ergebnis.df[m]
                  g == z.Erzeugung
                  d == z.Bedarf_Elektrolyseur
              IN  /\ g >= 0 /\ d >= 0
                  /\ z.Selbstversorgung \in {g, d}
                  /\ z.Selbstversorgung <= g /\ z.Selbstversorgung <= d
                  /\ z.Netzeinspeisung_Ueberschuss = (IF g > d THEN g - d ELSE 0)
                  /\ z.Netzbezug_Defizit = (IF d > g THEN d - g ELSE 0)
                  /\ ~(z.Netzeinspeisung_Ueberschuss > 0 /\ z.Netzbezug_Defizit > 0)
                  /\ (z.Netzeinspeisung_Ueberschuss = 0 /\ z.Netzbezug_Defizit = 0)
                        <=> (g = d)

\* One balance with a month of surplus, a month of deficit and a month in
\* which generation equals a positive demand.
C2_Witness ==
    /\ Fertig
    /\ ergebnis.df # << >>
    /\ \E a, b, c \in 1..Len(ergebnis.df) :
          /\ ergebnis.df[a].Netzeinspeisung_Ueberschuss > 0
          /\ ergebnis.df[b].Netzbezug_Defizit > 0
          /\ ergebnis.df[c].Erzeugung = ergebnis.df[c].Bedarf_Elektrolyseur
          /\ ergebnis.df[c].Erzeugung > 0

\* C3: the yearly self-consumption is the sum of the twelve monthly
\* self-consumptions, the yearly generation the sum of the twelve monthly
\* generations; the yearly self-consumption is at most the yearly generation
\* and at most twelve times the monthly demand, which is one twelfth of the
\* first electrolyzer's yearly demand in every month.
C3_Jahresselbstversorgung ==
    (Fertig /\ ergebnis.df # << >>) =>
        /\ ergebnis.jahres_selbstversorgung =
              SummeSeq([ m \in 1..12 |-> ergebnis.df[m].Selbstversorgung ])
        /\ ergebnis.jahres_erzeugung =
              SummeSeq([ m \in 1..12 |-> ergebnis.df[m].Erzeugung ])
        /\ ergebnis.jahres_selbstversorgung <= ergebnis.jahres_erzeugung
        /\ \A m \in 1..12 :
              12 * ergebnis.df[m].Bedarf_Elektrolyseur
                 = ErsterElektrolyseur.strombedarf_kwh_pa * ProfilSkala
        /\ ergebnis.jahres_selbstversorgung
              <= ErsterElektrolyseur.strombedarf_kwh_pa * ProfilSkala

\* Two generators; the yearly self-consumption is positive and strictly below
\* both the yearly generation and the yearly demand.
C3_Witness ==
    /\ Fertig
    /\ ergebnis.df # << >>
    /\ Len(Erzeuger(alle_komponenten)) >= 2
    /\ ergebnis.jahres_selbstversorgung > 0
    /\ ergebnis.jahres_selbstversorgung < ergebnis.jahres_erzeugung
    /\ ergebnis.jahres_selbstversorgung
          < ErsterElektrolyseur.strombedarf_kwh_pa * ProfilSkala

\* C4: when the analysis ran to its end with a first electrolyzer of rated
\* power 0, the operating hours are 0, the hydrogen produced is 0 and the
\* cost per kg is +infinity.
C4_NennleistungNull ==
    (Fertig /\ ergebnis.status = "Bericht" /\ ErsterElektrolyseur.nennleistung_kw = 0) =>
        /\ IstNull(ergebnis.h2_produktionsstunden)
        /\ IstNull(ergebnis.h2_produktion_kg_pa)
        /\ ergebnis.gestehungskosten_pro_kg_h2 = Inf

\* C5: with an electrolyzer whose options are all set and no generator, the
\* analysis runs to its end: twelve rows of generation 0, yearly generation
\* 0, yearly self-consumption 0, hydrogen 0 and a cost per kg of +infinity.
C5_OhneErzeuger ==
    ( /\ Fertig
      /\ HatElektrolyseur
      /\ ~HatErzeuger
      /\ ErsterElektrolyseur.strombedarf_kwh_pa # None
      /\ ErsterElektrolyseur.h2_produktionsrate_kg_h # None
      /\ ErsterElektrolyseur.nennleistung_kw > 0
      /\ \A i \in 1..Len(alle_komponenten) : alle_komponenten[i].lebensdauer # None ) =>
        /\ ergebnis.status = "Bericht"
        /\ Len(ergebnis.df) = 12
        /\ \A m \in 1..Len(ergebnis.df) : ergebnis.df[m].Erzeugung = 0
        /\ ergebnis.jahres_erzeugung = 0
        /\ ergebnis.jahres_selbstversorgung = 0
        /\ IstNull(ergebnis.h2_produktion_kg_pa)
        /\ ergebnis.gestehungskosten_pro_kg_h2 = Inf

\* C6: when the analysis ran to its end, the cost per kg is a value, never
\* missing: +infinity when the hydrogen produced is 0, and the yearly total
\* cost divided by the hydrogen produced when that is positive (0 when the
\* hydrogen produced is itself infinite).
C6_Gestehungskosten ==
    (Fertig /\ ergebnis.status = "Bericht") =>
        LET h2   == ergebnis.h2_produktion_kg_pa
            lcoh == ergebnis.gestehungskosten_pro_kg_h2
        IN  /\ lcoh.art \in {"fin", "inf"}
            /\ IstNull(h2) => lcoh = Inf
            /\ (h2.art = "fin" /\ h2.z > 0) =>
                  lcoh = Bruch(ergebnis.selbstkosten_total_pa * h2.n, h2.z * KostenSkala)
            /\ h2.art = "inf" => IstNull(lcoh)

\* A report with a positive amount of hydrogen and a positive total cost: the
\* cost per kg is a positive fraction.
C6_Witness ==
    /\ Fertig
    /\ ergebnis.status = "Bericht"
    /\ ergebnis.h2_produktion_kg_pa.art = "fin"
    /\ ergebnis.h2_produktion_kg_pa.z > 0
    /\ ergebnis.selbstkosten_total_pa > 0
    /\ ergebnis.gestehungskosten_pro_kg_h2.art = "fin"
    /\ ergebnis.gestehungskosten_pro_kg_h2.z > 0

\* C7: when the analysis ran to its end, the cost breakdown has the three
\* categories depreciation, maintenance and financing and no other (no
\* labour cost is supplied, so labour is 0), depreciation is the sum over
\* every loaded component of investment / lifetime (0 for lifetime 0),
\* maintenance the sum over every loaded component of investment times the
\* rate of its class, financing the total investment times 0.5 times 0.07,
\* and the yearly total cost is the sum of the three.  (Every quotient
\* investment / lifetime is exact in the model's cost unit.)
C7_Kostenaufstellung ==
    (Fertig /\ ergebnis.status = "Bericht") =>
        LET k == alle_komponenten
            n == Len(alle_komponenten)
            invest == SummeSeq([ i \in 1..n |-> k[i].investitionskosten ])
        IN  /\ DOMAIN ergebnis.kosten = {"Abschreibung", "Wartung", "Zinsen (Annahme)"}
            /\ ergebnis.gesamte_investition = invest
            /\ \A i \in 1..n : k[i].lebensdauer > 0 =>
                  (k[i].investitionskosten * KostenSkala) % k[i].lebensdauer = 0
            /\ ergebnis.kosten["Abschreibung"] =
                  SummeSeq([ i \in 1..n |->
                      IF k[i].lebensdauer > 0
                      THEN (k[i].investitionskosten * KostenSkala) \div k[i].lebensdauer
                      ELSE 0 ])
            /\ ergebnis.kosten["Wartung"] =
                  SummeSeq([ i \in 1..n |->
                      IF k[i].klasse = "Windkraftanlage"
                      THEN k[i].investitionskosten * 20
                      ELSE k[i].investitionskosten * 15 ])
            /\ ergebnis.kosten["Zinsen (Annahme)"] * 100 * 100 = invest * 50 * 7 * KostenSkala
            /\ ergebnis.selbstkosten_total_pa =
                  ergebnis.kosten["Abschreibung"] + ergebnis.kosten["Wartung"]
                     + ergebnis.kosten["Zinsen (Annahme)"] + 0

\* A report on an electrolyzer, a wind generator and a PV generator, each
\* with a positive investment.
C7_Witness ==
    /\ Fertig
    /\ ergebnis.status = "Bericht"
    /\ \E i, j, l \in 1..Len(alle_komponenten) :
          /\ alle_komponenten[i].klasse = "Elektrolyseur"
          /\ alle_komponenten[j].klasse = "Windkraftanlage"
          /\ alle_komponenten[l].klasse = "PVAnlage"
          /\ alle_komponenten[i].investitionskosten > 0
          /\ alle_komponenten[j].investitionskosten > 0
          /\ alle_komponenten[l].investitionskosten > 0
    /\ ergebnis.selbstkosten_total_pa > 0

\* What the iteration for the file just read would do with a parser that has
\* read nothing else.
Allein == Konstruiere(ConfigRead(ConfigParser, ini_file'), typ')

\* C8: in every iteration of the loader, a file whose try block raised (or a
\* file of a folder of no known type) adds no component, the loader stays in
\* its loop, and a file that is valid on its own adds its component,
\* whatever was read before it.
C8_FehlerhafteDateiUebersprungen ==
    [][ anzahl' = anzahl + 1 =>
          /\ pc' = "parse"
          /\ fehler' # "" => alle_komponenten' = alle_komponenten
          /\ typ' = "sonstiges" => alle_komponenten' = alle_komponenten
          /\ Allein.fehler = "" => Len(alle_komponenten') = Len(alle_komponenten) + 1
      ]_vars

\* C9: every generator in the component list has a profile of twelve
\* non-negative fractions that sum to 1, so its twelve monthly productions
\* sum to its yearly production.
C9_ProfilSummeEins ==
    \A i \in 1..Len(alle_komponenten) :
        LET k == alle_komponenten[i]
        IN  (k.klasse \in {"Windkraftanlage", "PVAnlage"}) =>
               /\ Len(k.monatsprofil) = 12
               /\ \A m \in 1..Len(k.monatsprofil) : k.monatsprofil[m] >= 0
               /\ SummeSeq(k.monatsprofil) = ProfilSkala
               /\ Ertragsfaktor(k) # None =>
                     SummeSeq(MonatlicheProduktion(k)) = Jahresproduktion(k) * ProfilSkala

\* C10: every iteration of the loader ends as it would with a parser that has
\* read no other file: a file that fails on its own adds nothing, a file that
\* loads on its own adds the component built from its own options alone.
C10_DateienUnabhaengig ==
    [][ anzahl' = anzahl + 1 =>
          alle_komponenten' = Angehaengt(alle_komponenten, Allein)
      ]_vars

====
